---- MODULE Spec2Model ----
(***************************************************************************)
(* for_this_send_that.py: the batch runner that reads a worksheet of       *)
(* devices, connects to each one, sends a command set, optionally runs a   *)
(* verification command, saves and disconnects, logging to output.log.     *)
(*                                                                         *)
(* The worksheet, the command-line switches, the operator's answers and    *)
(* the outcome of every call into netmiko are inputs.  A call into netmiko *)
(* either returns, raises one of the two exceptions main() catches, or     *)
(* raises something else.                                                  *)
(***************************************************************************)
EXTENDS Integers, Sequences, FiniteSets, TLC

VARIABLES sheet, rollback, verify, pc, exc, input_info, row, open, result,
          log, calls, prompts, files

vars == <<sheet, rollback, verify, pc, exc, input_info, row, open, result,
          log, calls, prompts, files>>

\* ---------------------------------------------------------------- bounds
\* Largest number of worksheet rows below the header row.
MaxRows == 2

\* ---------------------------------------------------------------- values
\* The value of an empty worksheet cell (openpyxl gives None).
None == <<>>

\* OS_Type cells, as the words between underscores.
cisco_ios == <<"cisco", "ios">>
cisco_asa == <<"cisco", "asa">>
cisco_ios_telnet == <<"cisco", "ios", "telnet">>
juniper == <<"juniper">>
linux == <<"linux">>

\* The OS_Type values the help text of the argument parser names.
RecognizedKinds == {cisco_ios, cisco_ios_telnet, cisco_asa, juniper}

\* OS_Type cells of the worksheets explored.  main() and save_now() look at
\* an OS_Type only through 'cisco' in, 'juniper' in and == 'juniper', so
\* cisco_asa goes the way of cisco_ios and is left out of the worksheets.
Kinds == {cisco_ios, cisco_ios_telnet, juniper, linux}

\* The two exception classes main() catches per device.
netmiko_exceptions == {"NetMikoTimeoutException", "NetMikoAuthenticationException"}

\* What a call into netmiko (or the file system) can do: return, or raise.
Outcomes == {"ok"} \cup netmiko_exceptions \cup {"Exception"}

\* What the operator can type at 'Save changes? (y/n) ', as characters.
Answers == {<<"y">>, <<"Y">>, <<"n">>}

\* Row r of the worksheets explored (r counts from 1 below the header): a
\* blank row, or a row with a device name, where OS_Type may be missing and
\* column E is optional.
SheetRows(r) ==
    [A : {None}, B : {None}, C : {None}, D : {None}, E : {None}]
    \cup
    [A : {<<"host", r>>},
     B : Kinds \cup {None},
     C : {<<"implementation", r>>},
     D : {<<"rollback", r>>},
     E : {None, <<"show", r>>}]

Sheets ==
    UNION { { s \in [1..n -> UNION { SheetRows(r) : r \in 1..n }] :
                \A r \in 1..n : s[r] \in SheetRows(r) } : n \in 0..MaxRows }

\* ------------------------------------------------------ pure functions
\* 'word' in device_type, for a word without underscores.
Contains(device_type, word) ==
    \E i \in 1..Len(device_type) : device_type[i] = word

\* str.lower() on the characters the answers are made of.
LowerChar(c) ==
    IF c = "Y" THEN "y" ELSE IF c = "N" THEN "n" ELSE c

Lower(answer) == [i \in 1..Len(answer) |-> LowerChar(answer[i])]

\* ask_to_save() with the test on the answer lost: every answer comes back
\* as 'y'.
ask_to_save_always(answer) == <<"y">>

\* ask_to_save() once raw_input has returned answer.
ask_to_save(answer) ==
    IF Lower(answer) = <<"y">> THEN answer ELSE None

\* indentem(): every line is indented by four more spaces.
IndentWidth == 4

indentem(lines) ==
    [i \in 1..Len(lines) |-> [lines[i] EXCEPT !.indent = @ + IndentWidth]]

\* The transcript a device returns for a command string: one line.
Response(r, commands) == << [indent |-> 0, text |-> <<r, commands>>] >>

\* open_file(): one entry per worksheet row 2..max_row, keyed row - 1.
open_file(ws) ==
    [r \in 1..Len(ws) |->
        [host |-> ws[r].A,
         device_type |-> ws[r].B,
         implementation_cmds |-> ws[r].C,
         rollback_cmds |-> ws[r].D,
         verification_cmds |-> ws[r].E]]

\* ----------------------------------------------------------- bookkeeping
Entry(msg, r, text) == [msg |-> msg, row |-> r, text |-> text]

\* How a call ended, as main() sees it: it returned, it raised an exception
\* main() catches, or it raised one main() does not catch.
Ended(outcome) ==
    IF outcome = "ok" THEN "returned"
    ELSE IF outcome \in netmiko_exceptions THEN "caught" ELSE "uncaught"

Call(r, op, arg, outcome) == [row |-> r, op |-> op, arg |-> arg, ended |-> Ended(outcome)]

\* A prompt and what the operator did with it; row 0 is the password prompt.
KeyboardInterrupt == <<"KeyboardInterrupt">>

Prompt(r, answer) == [row |-> r, answer |-> answer]

\* The except clause with a break after the log entry: a caught exception
\* ends the loop.
RaiseAndStop(e) ==
    IF e \in netmiko_exceptions
    THEN /\ log' = Append(Append(log, Entry("Failed to connect", row, <<>>)),
                          Entry("End of run", 0, <<Len(input_info)>>))
         /\ pc' = "done"
         /\ row' = row
         /\ exc' = exc
    ELSE /\ log' = log
         /\ pc' = "raised"
         /\ row' = row
         /\ exc' = e

\* The loop written as range(1, len(input_info)): it ends one row early.
ForRowOneShort(r, lg) ==
    /\ row' = r
    /\ IF r >= Len(input_info)
       THEN /\ log' = Append(lg, Entry("End of run", 0, <<Len(input_info)>>))
            /\ pc' = "done"
            /\ exc' = exc
       ELSE /\ log' = lg
            /\ IF input_info[r].host = None \/ input_info[r].device_type = None
               THEN pc' = "raised" /\ exc' = "TypeError"
               ELSE pc' = "connect" /\ exc' = exc

\* main(), lines 81-89 and 140-142: the loop comes to row r with the log lg.
\* Past the last row it ends with the summary line and the end-of-run entry.
\* Otherwise it builds device_dict and prints the 'Connecting to' line, which
\* concatenates host and device_type to strings.
ForRow(r, lg) ==
    /\ row' = r
    /\ IF r > Len(input_info)
       THEN /\ log' = Append(lg, Entry("End of run", 0, <<Len(input_info)>>))
            /\ pc' = "done"
            /\ exc' = exc
       ELSE /\ log' = lg
            /\ IF input_info[r].host = None \/ input_info[r].device_type = None
               THEN pc' = "raised" /\ exc' = "TypeError"
               ELSE pc' = "connect" /\ exc' = exc

\* The except clause written as a catch-all: every exception is logged as a
\* failed connect and the loop goes on.
RaiseCatchAll(e) ==
    ForRow(row + 1, Append(log, Entry("Failed to connect", row, <<>>)))

\* An exception leaves the try block of main(): the two netmiko classes are
\* caught, logged as a failed connect, and the loop goes on; anything else
\* leaves main().
Raise(e) ==
    IF e \in netmiko_exceptions
    THEN ForRow(row + 1, Append(log, Entry("Failed to connect", row, <<>>)))
    ELSE /\ log' = log
         /\ pc' = "raised"
         /\ row' = row
         /\ exc' = e

\* -------------------------------------------------------------- initial
Init ==
    /\ sheet \in Sheets
    /\ rollback \in BOOLEAN
    /\ verify \in BOOLEAN
    /\ pc = "open_file"
    /\ exc = "none"
    /\ input_info = <<>>
    /\ row = 0
    /\ open = {}
    /\ result = None
    /\ log = <<>>
    /\ calls = <<>>
    /\ prompts = <<>>
    /\ files = {}

\* -------------------------------------------------------------- actions
\* main(), line 70: input_info = open_file(input_file)
OpenFile ==
    /\ pc = "open_file"
    /\ input_info' = open_file(sheet)
    /\ pc' = "get_creds"
    /\ UNCHANGED <<sheet, rollback, verify, exc, row, open, result, log,
                   calls, prompts, files>>

\* get_creds() with the exit() missing from the handler: an interrupted
\* password prompt lets main() go on.
GetCredsNoExit ==
    /\ pc = "get_creds"
    /\ \E interrupted \in BOOLEAN :
          /\ prompts' = Append(prompts,
                 Prompt(0, IF interrupted THEN KeyboardInterrupt ELSE <<"password">>))
          /\ pc' = "start"
          /\ exc' = exc
    /\ UNCHANGED <<sheet, rollback, verify, input_info, row, open, result,
                   log, calls, files>>

\* get_creds(): the password prompt returns, or the operator interrupts it
\* and exit() ends the process.
GetCreds ==
    /\ pc = "get_creds"
    /\ \E interrupted \in BOOLEAN :
          IF interrupted
          THEN /\ prompts' = Append(prompts, Prompt(0, KeyboardInterrupt))
               /\ pc' = "exited"
               /\ exc' = "SystemExit"
          ELSE /\ prompts' = Append(prompts, Prompt(0, <<"password">>))
               /\ pc' = "start"
               /\ exc' = exc
    /\ UNCHANGED <<sheet, rollback, verify, input_info, row, open, result,
                   log, calls, files>>

\* main(), lines 77-81: the start-of-run entry; the loop starts at row 1.
StartRun ==
    /\ pc = "start"
    /\ ForRow(1, Append(log, Entry("Starting run", 0, <<Len(input_info)>>)))
    /\ UNCHANGED <<sheet, rollback, verify, input_info, open, result,
                   calls, prompts, files>>

\* main(), lines 91-92: netmiko.ConnectHandler(**device_dict)
Connect ==
    /\ pc = "connect"
    /\ \E o \in Outcomes :
          /\ calls' = Append(calls, Call(row, "ConnectHandler", input_info[row].host, o))
          /\ IF o = "ok"
             THEN /\ open' = open \cup {row}
                  /\ log' = Append(log, Entry("Successfully connected", row, <<>>))
                  /\ pc' = "enable"
                  /\ UNCHANGED <<row, exc>>
             ELSE /\ open' = open
                  /\ Raise(o)
    /\ UNCHANGED <<sheet, rollback, verify, input_info, result, prompts, files>>

\* main() with line 93 left out: the command set is sent without enable().
EnableSkipped ==
    /\ pc = "enable"
    /\ pc' = "send"
    /\ UNCHANGED <<sheet, rollback, verify, exc, input_info, row, open, result,
                   log, calls, prompts, files>>

\* main(), line 93: connection.enable()
Enable ==
    /\ pc = "enable"
    /\ \E o \in Outcomes :
          /\ calls' = Append(calls, Call(row, "enable", None, o))
          /\ IF o = "ok"
             THEN pc' = "send" /\ UNCHANGED <<row, exc, log>>
             ELSE Raise(o)
    /\ UNCHANGED <<sheet, rollback, verify, input_info, open, result, prompts, files>>

\* main(), lines 96-111: send one command set, then log its transcript.
\* Without -r, a device_type with neither 'cisco' nor 'juniper' in it sends
\* nothing and leaves result as it was: unbound (UnboundLocalError) on the
\* first such use, the previous device's transcript otherwise.
\* The command set chosen without looking at -r.
CommandsIgnoringRollback == input_info[row].implementation_cmds

Commands ==
    IF rollback
    THEN input_info[row].rollback_cmds
    ELSE input_info[row].implementation_cmds

Sends ==
    \/ rollback
    \/ Contains(input_info[row].device_type, "cisco")
    \/ Contains(input_info[row].device_type, "juniper")

\* The send with the exit_config_mode=False argument of line 108 left out.
ExitConfigModeAlways == TRUE

ExitConfigMode ==
    \/ rollback
    \/ Contains(input_info[row].device_type, "cisco")

SendCommands ==
    /\ pc = "send"
    /\ IF Sends
       THEN \E o \in Outcomes :
               /\ calls' = Append(calls,
                      Call(row, "send_config_set",
                           [cmds |-> Commands, exit_config_mode |-> ExitConfigMode], o))
               /\ IF o = "ok"
                  THEN /\ result' = Response(row, Commands)
                       /\ log' = Append(log, Entry("Actions", row, indentem(result')))
                       /\ pc' = "verify"
                       /\ UNCHANGED <<row, exc>>
                  ELSE /\ result' = result
                       /\ Raise(o)
       ELSE /\ calls' = calls
            /\ result' = result
            /\ IF result = None
               THEN /\ pc' = "raised"
                    /\ exc' = "UnboundLocalError"
                    /\ UNCHANGED <<row, log>>
               ELSE /\ log' = Append(log, Entry("Actions", row, indentem(result)))
                    /\ pc' = "verify"
                    /\ UNCHANGED <<row, exc>>
    /\ UNCHANGED <<sheet, rollback, verify, input_info, open, prompts, files>>

\* main(), lines 114-116, and verify_config(): send the 'show' command,
\* write <host>.show, log the output.
VerifyConfig ==
    /\ pc = "verify"
    /\ IF input_info[row].verification_cmds = None
       THEN /\ pc' = "persist"
            /\ UNCHANGED <<row, exc, log, calls, files>>
       ELSE \E o \in Outcomes :
               IF o # "ok"
               THEN /\ calls' = Append(calls,
                          Call(row, "send_command", input_info[row].verification_cmds, o))
                    /\ files' = files
                    /\ Raise(o)
               ELSE \E w \in {"ok", "IOError"} :
                       /\ calls' = calls \o
                             << Call(row, "send_command", input_info[row].verification_cmds, o),
                                Call(row, "open", input_info[row].host, w) >>
                       /\ IF w # "ok"
                          THEN /\ files' = files
                               /\ Raise(w)
                          ELSE /\ files' = files \cup
                                      {[name |-> input_info[row].host,
                                        text |-> Response(row, input_info[row].verification_cmds)]}
                               /\ log' = Append(log, Entry("Verification commands", row,
                                      indentem(Response(row, input_info[row].verification_cmds))))
                               /\ pc' = "persist"
                               /\ UNCHANGED <<row, exc>>
    /\ UNCHANGED <<sheet, rollback, verify, input_info, open, result, prompts>>

\* save_now(): the call it makes for a device_type, if any.
save_now(device_type) ==
    IF Contains(device_type, "cisco")
    THEN <<"send_command", <<"write mem">>>>
    ELSE IF device_type = juniper
         THEN <<"commit", <<"and_quit">>>>
         ELSE None

\* The save itself, as main() runs it at line 122 or 129, with the log entry
\* that follows it.
Save(o, msg) ==
    /\ calls' = IF save_now(input_info[row].device_type) = None
                THEN calls
                ELSE Append(calls, Call(row, save_now(input_info[row].device_type)[1],
                                         save_now(input_info[row].device_type)[2], o))
    /\ IF o = "ok" \/ save_now(input_info[row].device_type) = None
       THEN /\ log' = Append(log, Entry(msg, row, <<>>))
            /\ pc' = "disconnect"
            /\ UNCHANGED <<row, exc>>
       ELSE Raise(o)

\* main(), lines 119-130: with -v ask the operator, who answers or
\* interrupts the prompt; save on the answer 'y', or without -v.
DetermineSave ==
    /\ pc = "persist"
    /\ IF verify
       THEN \/ /\ prompts' = Append(prompts, Prompt(row, KeyboardInterrupt))
               /\ pc' = "raised"
               /\ exc' = "KeyboardInterrupt"
               /\ UNCHANGED <<row, log, calls>>
            \/ \E answer \in Answers :
                  /\ prompts' = Append(prompts, Prompt(row, answer))
                  /\ IF ask_to_save(answer) = <<"y">>
                     THEN \E o \in Outcomes : Save(o, "Saved config changes")
                     ELSE /\ log' = Append(log, Entry("Changes NOT saved", row, <<>>))
                          /\ pc' = "disconnect"
                          /\ UNCHANGED <<row, exc, calls>>
       ELSE /\ prompts' = prompts
            /\ \E o \in Outcomes : Save(o, "Saved changes")
    /\ UNCHANGED <<sheet, rollback, verify, input_info, open, result, files>>

\* main(), lines 133-135: log, then connection.disconnect(); the loop goes
\* on with the next row.
Disconnect ==
    /\ pc = "disconnect"
    /\ calls' = Append(calls, Call(row, "disconnect", None, "ok"))
    /\ open' = open \ {row}
    /\ ForRow(row + 1, Append(log, Entry("Disconnecting", row, <<>>)))
    /\ UNCHANGED <<sheet, rollback, verify, input_info, result, prompts, files>>

Next ==
    \/ OpenFile
    \/ GetCreds
    \/ StartRun
    \/ Connect
    \/ Enable
    \/ SendCommands
    \/ VerifyConfig
    \/ DetermineSave
    \/ Disconnect

Spec == Init /\ [][Next]_vars

\* The script is one sequential process: a step that can be taken is taken.
FairSpec == Spec /\ WF_vars(Next)

\* ------------------------------------------------------------ vocabulary
Rows == 1..Len(sheet)

CallIndexes(r, op) == { i \in 1..Len(calls) : calls[i].row = r /\ calls[i].op = op }

Called(r, op) == \E i \in 1..Len(calls) : calls[i].row = r /\ calls[i].op = op

Logged(r, msg) == \E i \in 1..Len(log) : log[i].row = r /\ log[i].msg = msg

\* The calls save_now() makes: 'write mem' or commit.
SaveIndexes(r) ==
    { i \in 1..Len(calls) :
        /\ calls[i].row = r
        /\ \/ calls[i].op = "commit"
           \/ calls[i].op = "send_command" /\ calls[i].arg = <<"write mem">> }

LoggedSaved(r) == Logged(r, "Saved changes") \/ Logged(r, "Saved config changes")

\* The loop is past row r.
Past(r) == row > r

\* The run stopped on an exception nothing catches while at row r.
AbortedAt(r) == pc = "raised" /\ row = r

\* The Connect step of row r raised one of the two caught exceptions.
ConnectFailed(r) ==
    \E i \in CallIndexes(r, "ConnectHandler") : calls[i].ended = "caught"

\* ------------------------------------------------------------------- C1
\* C1: if the Connect step of device r raises a recognized connection error,
\* the only call made for r is that connect (no escalate, send, verification,
\* save or disconnect), a 'Failed to connect' entry is logged for r, r is
\* never logged as connected or saved, no session of r is open, and the
\* runner goes on to the next row: when row r + 1 holds a device (a name and
\* an OS_Type), the loop is at the connect of row r + 1 or has already
\* attempted it.
C1_ConnectFailureIsolated ==
    \A i \in 1..Len(calls) :
        (calls[i].op = "ConnectHandler" /\ calls[i].ended = "caught") =>
            LET r == calls[i].row
            IN  /\ \A j \in 1..Len(calls) : calls[j].row = r => j = i
                /\ Logged(r, "Failed to connect")
                /\ ~Logged(r, "Successfully connected")
                /\ ~LoggedSaved(r)
                /\ r \notin open
                /\ Past(r)
                /\ ~AbortedAt(r)
                /\ (r < Len(sheet) /\ sheet[r + 1].A # None /\ sheet[r + 1].B # None) =>
                      \/ row = r + 1 /\ pc = "connect"
                      \/ Called(r + 1, "ConnectHandler")

\* A failed connect of row 1 followed by a connect attempt for row 2.
C1_Witness ==
    /\ ConnectFailed(1)
    /\ Called(2, "ConnectHandler")

\* ------------------------------------------------------------------- C2
\* C2: once the connect of device r succeeded, its session is disconnected
\* on every exit path: a session is open only while the loop is at that
\* device, so none is open when the loop has moved on or the run has ended.
C2_NoLeakedSession ==
    \A r \in open : row = r /\ pc \in {"enable", "send", "verify", "persist", "disconnect"}

\* ------------------------------------------------------------------- C3
\* C3: rows with an empty name cell are dropped without error or abort, and
\* the devices that get a connect attempt and an outcome are exactly the rows
\* with a non-empty name.
C3_BlankRowsDropped ==
    /\ \A r \in Rows : sheet[r].A = None => ~AbortedAt(r)
    /\ pc \in {"get_creds", "start", "done"} =>
          Len(input_info) = Cardinality({ r \in Rows : sheet[r].A # None })
    /\ pc = "done" =>
          { r \in Rows : Called(r, "ConnectHandler") } = { r \in Rows : sheet[r].A # None }

\* ------------------------------------------------------------------- C4
\* Row r is past the Execute step: enable returned and the send is behind.
PastExecute(r) ==
    /\ ~(row = r /\ pc = "send")
    /\ \E i \in 1..Len(calls) :
          calls[i].row = r /\ calls[i].op = "enable" /\ calls[i].ended = "returned"

AnswersAt(r) ==
    { prompts[i].answer : i \in { j \in 1..Len(prompts) :
          prompts[j].row = r /\ prompts[j].answer # KeyboardInterrupt } }

\* C5: with -v, a device whose save prompt got an answer that is not 'y' in
\* either case has no save command issued, has 'Changes NOT saved' logged,
\* is not failed, and its session is closed once the loop is past it.
C5_NoSaveWithoutYes ==
    verify =>
       \A i \in 1..Len(prompts) :
           (/\ prompts[i].row > 0
            /\ prompts[i].answer # KeyboardInterrupt
            /\ Lower(prompts[i].answer) # <<"y">>) =>
              LET r == prompts[i].row
              IN  /\ SaveIndexes(r) = {}
                  /\ ~LoggedSaved(r)
                  /\ Logged(r, "Changes NOT saved")
                  /\ ~Logged(r, "Failed to connect")
                  /\ ~AbortedAt(r)
                  /\ \/ row = r /\ pc = "disconnect" /\ r \in open
                     \/ Past(r) /\ r \notin open /\ Called(r, "disconnect")

\* The operator answered 'n' for row 1 and the loop went on.
C5_Witness ==
    /\ verify
    /\ <<"n">> \in AnswersAt(1)
    /\ Past(1)
    /\ Called(1, "disconnect")

\* ------------------------------------------------------------------- C6
\* The save prompts of row r, answered or interrupted.
PromptIndexes(r) == { i \in 1..Len(prompts) : prompts[i].row = r }

\* Row r reached the Persist step and is past the prompt.
PastPersistPrompt(r) ==
    \/ row = r /\ pc = "disconnect"
    \/ Logged(r, "Disconnecting")
    \/ PromptIndexes(r) # {}

\* C6: with -v, a device that reached the Persist step was prompted exactly
\* once, and every answer that is 'y' in either letter case led to the save
\* call of the device's kind and, when that call returned, to a 'Saved'
\* entry.
C6_EveryYesSaves ==
    verify =>
       \A r \in Rows :
          /\ PastPersistPrompt(r) => Cardinality(PromptIndexes(r)) = 1
          /\ \A a \in AnswersAt(r) :
                (Lower(a) = <<"y">> /\ sheet[r].B \in RecognizedKinds) =>
                   /\ SaveIndexes(r) # {}
                   /\ (\A i \in SaveIndexes(r) : calls[i].ended = "returned") =>
                         LoggedSaved(r)

\* ------------------------------------------------------------------- C7
\* The command set of row r was sent and the send returned.
ExecuteCompleted(r) ==
    \E i \in CallIndexes(r, "send_config_set") : calls[i].ended = "returned"

\* C7: without -v no save prompt is issued, and every device of a recognized
\* kind whose command set was sent successfully has, once the loop is past
\* it, a save command issued and, when that command returned, a 'Saved'
\* entry.
C7_SilentSaveAlways ==
    ~verify =>
       /\ \A i \in 1..Len(prompts) : prompts[i].row = 0
       /\ \A r \in Rows :
             (ExecuteCompleted(r) /\ Past(r) /\ sheet[r].B \in RecognizedKinds) =>
                /\ SaveIndexes(r) # {}
                /\ (\A i \in SaveIndexes(r) : calls[i].ended = "returned") =>
                      LoggedSaved(r)

\* ------------------------------------------------------------------- C8
\* The Verify step of row r failed: the 'show' command or the writing of its
\* output raised.
VerifyFailed(r) ==
    \/ \E i \in CallIndexes(r, "send_command") :
          calls[i].arg = sheet[r].E /\ calls[i].ended # "returned"
    \/ \E i \in CallIndexes(r, "open") : calls[i].ended # "returned"

\* C8: a failed Verify step does not change the device's outcome: the device
\* is not logged as failed, the run is not stopped, and the save and the
\* disconnect follow.
C8_VerifyFailureNonFatal ==
    \A r \in Rows :
        VerifyFailed(r) =>
           /\ ~Logged(r, "Failed to connect")
           /\ ~AbortedAt(r)
           /\ \/ row = r /\ pc \in {"persist", "disconnect"}
              \/ Called(r, "disconnect")

\* ------------------------------------------------------------------- C9
\* The operator interrupted the save prompt of row r.
SavePromptInterrupted(r) ==
    \E i \in PromptIndexes(r) : prompts[i].answer = KeyboardInterrupt

\* C9: an interrupted save prompt counts as the answer no: nothing is saved,
\* the run is not stopped, the device is disconnected and the loop goes on.
C9_InterruptMeansNo ==
    \A r \in Rows :
        SavePromptInterrupted(r) =>
           /\ SaveIndexes(r) = {}
           /\ ~AbortedAt(r)
           /\ \/ row = r /\ pc = "disconnect"
              \/ Called(r, "disconnect")

\* ------------------------------------------------------------------ C10
\* The operator interrupted the password prompt.
PasswordPromptInterrupted ==
    \E i \in 1..Len(prompts) :
        prompts[i].row = 0 /\ prompts[i].answer = KeyboardInterrupt

\* C10: an interrupted password prompt ends the run at once: the process has
\* exited, no step can follow, no call was made for any device, no session
\* is open, and the run log has no start-of-run entry nor any other entry.
C10_InterruptedPasswordExits ==
    PasswordPromptInterrupted =>
       /\ pc = "exited"
       /\ exc = "SystemExit"
       /\ ~ENABLED Next
       /\ calls = <<>>
       /\ open = {}
       /\ log = <<>>

\* The password prompt of a run over two named devices was interrupted.
C10_Witness ==
    /\ PasswordPromptInterrupted
    /\ pc = "exited"
    /\ Len(input_info) = MaxRows
    /\ \A r \in Rows : input_info[r].host # None

\* ------------------------------------------------------------------ C11
\* C11: an exception of a call for device r that is not one of the two
\* netmiko classes is not caught: the run has stopped on it at row r, it is
\* the last call of the run, no step can follow, no later row has a connect
\* attempt and the end-of-run entry is not written.
C11_OtherErrorsPropagate ==
    \A i \in 1..Len(calls) :
        calls[i].ended = "uncaught" =>
           /\ i = Len(calls)
           /\ AbortedAt(calls[i].row)
           /\ exc \in {"Exception", "IOError"}
           /\ ~ENABLED Next
           /\ ~Logged(0, "End of run")
           /\ ~Logged(calls[i].row, "Failed to connect")

\* enable() of row 1 raised such an exception and row 2 holds a device.
C11_Witness ==
    /\ Len(sheet) = MaxRows
    /\ sheet[2].A # None
    /\ sheet[2].B \in RecognizedKinds
    /\ \E i \in 1..Len(calls) :
          calls[i].row = 1 /\ calls[i].op = "enable" /\ calls[i].ended = "uncaught"

\* ------------------------------------------------------------------ C12
\* A row that names a device but has no OS_Type or one the help text does
\* not name.
Malformed(r) == sheet[r].A # None /\ sheet[r].B \notin RecognizedKinds

\* C12: when a row of the worksheet is malformed the run fails before any
\* device is touched: no call is made for any row and the run does not
\* complete.
C12_MalformedInputFailsFirst ==
    (\E r \in Rows : Malformed(r)) => calls = <<>> /\ pc # "done"

\* ------------------------------------------------------------------ C13
\* C13: devices are processed one at a time in row order, each at most once,
\* and at most one session is open at any time: the calls of the run are
\* grouped by row in increasing order, one connect per row, and no connect
\* is attempted for a row after one whose session is open.
C13_OneSessionAtATime ==
    /\ Cardinality(open) <= 1
    /\ \A r \in open : \A i \in 1..Len(calls) :
          calls[i].op = "ConnectHandler" => calls[i].row <= r
    /\ \A i \in 1..Len(calls) - 1 :
          /\ calls[i].row <= calls[i + 1].row
          /\ calls[i + 1].op = "ConnectHandler" <=> calls[i].row < calls[i + 1].row

\* ------------------------------------------------------------------ C14
\* So far the only errors of the run are caught exceptions of the Connect
\* step: nothing has left main() and every other call returned.
OnlyConnectErrors ==
    /\ exc = "none"
    /\ \A i \in 1..Len(calls) :
          \/ calls[i].ended = "returned"
          \/ calls[i].op = "ConnectHandler" /\ calls[i].ended = "caught"

\* The run ended with the end-of-run entry after a connect attempt for every
\* row.
RunCompleted ==
    /\ pc = "done"
    /\ Len(log) > 0
    /\ log[Len(log)].msg = "End of run"
    /\ \A r \in Rows : Called(r, "ConnectHandler")

\* C14: a run whose only errors are caught exceptions of the Connect step,
\* however many devices fail, eventually has attempted every device and
\* ended with the summary and the end-of-run entry.
C14_RunCompletes == <>(~OnlyConnectErrors \/ RunCompleted)

\* Every device of a full worksheet failed to connect and the run completed.
C14_Witness ==
    /\ RunCompleted
    /\ OnlyConnectErrors
    /\ Len(sheet) = MaxRows
    /\ \A r \in Rows : ConnectFailed(r)

\* ------------------------------------------------------------------ C15
\* C15: a command set is sent with exit_config_mode=False exactly when the
\* device is a juniper and the run is without -r; every other send leaves
\* configuration mode at the end of the command set.
C15_ConfigModeLeftOpenOnlyForJuniper ==
    \A i \in 1..Len(calls) :
        calls[i].op = "send_config_set" =>
           (calls[i].arg.exit_config_mode = FALSE
               <=> (sheet[calls[i].row].B = juniper /\ ~rollback))

\* Without -r, a juniper and a cisco_ios_telnet device each had a command set
\* sent.
C15_Witness ==
    /\ ~rollback
    /\ \E i, j \in 1..Len(calls) :
          /\ calls[i].op = "send_config_set"
          /\ sheet[calls[i].row].B = juniper
          /\ calls[j].op = "send_config_set"
          /\ sheet[calls[j].row].B = cisco_ios_telnet

\* ------------------------------------------------------------------ C16
\* The save call of an OS_Type: 'write mem' for the cisco ones, a single
\* commit-and-exit for juniper.
IsSaveOf(c, kind) ==
    \/ /\ kind \in {cisco_ios, cisco_ios_telnet, cisco_asa}
       /\ c.op = "send_command"
       /\ c.arg = <<"write mem">>
    \/ /\ kind = juniper
       /\ c.op = "commit"
       /\ c.arg = <<"and_quit">>

\* C16: a device has at most one save call, the one of its OS_Type, and a
\* 'Saved' entry is logged only for a device with such a call.
C16_SaveIsTheOneOfTheKind ==
    \A r \in Rows :
       /\ \A i \in SaveIndexes(r) :
             /\ IsSaveOf(calls[i], sheet[r].B)
             /\ \A j \in SaveIndexes(r) : j = i
       /\ LoggedSaved(r) => SaveIndexes(r) # {}

\* ------------------------------------------------------------------ C17
\* The 'show' command of row r was sent.
VerificationSent(r) ==
    \E i \in 1..Len(calls) :
        calls[i].row = r /\ calls[i].op = "send_command" /\ calls[i].arg # <<"write mem">>

\* The 'show' command of row r returned and <host>.show was written.
VerificationCaptured(r) ==
    \E i \in 1..Len(calls) :
        calls[i].row = r /\ calls[i].op = "open" /\ calls[i].ended = "returned"

\* Row r came to the Persist step: a prompt, a save call or a save entry.
ReachedPersist(r) ==
    \/ LoggedSaved(r)
    \/ Logged(r, "Changes NOT saved")
    \/ SaveIndexes(r) # {}
    \/ PromptIndexes(r) # {}

\* C17: for a device past the Execute and Verify steps the 'show' command
\* was sent exactly when column E is not empty; its captured output is in the
\* run log and in the file named after the device; and sending it changes
\* nothing of what follows: the device goes on to the Persist step.
C17_VerificationOnlyObserves ==
    \A r \in Rows :
       /\ (Logged(r, "Actions") /\ ~(row = r /\ pc = "verify")) =>
             (VerificationSent(r) <=> sheet[r].E # None)
       /\ VerificationCaptured(r) =>
             /\ \E i \in 1..Len(log) :
                   /\ log[i] = Entry("Verification commands", r,
                                     indentem(Response(r, sheet[r].E)))
             /\ [name |-> sheet[r].A, text |-> Response(r, sheet[r].E)] \in files
       /\ VerificationSent(r) =>
             \/ row = r /\ pc = "persist"
             \/ ReachedPersist(r)

\* ------------------------------------------------------------------ C18
\* The place of a call in a device's lifecycle.
Step(c) ==
    IF c.op = "ConnectHandler" THEN 1
    ELSE IF c.op = "enable" THEN 2
    ELSE IF c.op = "send_config_set" THEN 3
    ELSE IF c.op = "send_command" /\ c.arg # <<"write mem">> THEN 4
    ELSE IF c.op = "open" THEN 5
    ELSE IF c.op = "disconnect" THEN 7
    ELSE 6

\* C18: the calls of one device come in the order connect, enable, command
\* set, verification, save, disconnect, each at most once; enable follows
\* every connect that returned at once; a save comes only after the command
\* set (and after the prompt, with -v); nothing follows the disconnect.
C18_StepsInOrder ==
    /\ \A i \in 1..Len(calls) - 1 :
          calls[i].row = calls[i + 1].row => Step(calls[i]) < Step(calls[i + 1])
    /\ \A i \in 1..Len(calls) :
          /\ (i = 1 \/ calls[i - 1].row # calls[i].row) => calls[i].op = "ConnectHandler"
          /\ (calls[i].op = "ConnectHandler" /\ calls[i].ended = "returned") =>
                IF i = Len(calls)
                THEN row = calls[i].row /\ pc = "enable"
                ELSE calls[i + 1].row = calls[i].row /\ calls[i + 1].op = "enable"
          /\ calls[i].op = "send_config_set" => calls[i - 1].op = "enable"
          /\ Step(calls[i]) = 6 =>
                /\ \E j \in 1..(i - 1) :
                      /\ calls[j].row = calls[i].row
                      /\ calls[j].op = "send_config_set"
                      /\ calls[j].ended = "returned"
                /\ verify => \E k \in 1..Len(prompts) :
                                prompts[k].row = calls[i].row /\ prompts[k].answer = <<"y">>
          /\ calls[i].op = "disconnect" =>
                /\ calls[i].row \notin open
                /\ i < Len(calls) => calls[i + 1].row > calls[i].row

\* With -v a device went through every step: connect, enable, command set,
\* verification and its file, save, disconnect.
C18_Witness ==
    /\ verify
    /\ Len(calls) >= 7
    /\ \A i \in 1..7 : calls[i].row = 1 /\ Step(calls[i]) = i

\* ------------------------------------------------------------------ C19
\* C19: every 'Actions' entry of the run log carries the response to the
\* command set sent to that same device in that iteration: the device has a
\* send that returned, and the entry is the indented response to its own
\* command set of the mode.
C19_ActionsAreTheDevicesOwn ==
    \A i \in 1..Len(log) :
        log[i].msg = "Actions" =>
           /\ ExecuteCompleted(log[i].row)
           /\ log[i].text =
                 indentem(Response(log[i].row,
                                   IF rollback THEN sheet[log[i].row].D
                                               ELSE sheet[log[i].row].C))

\* ------------------------------------------------------------------ C20
\* C20: no device has both a 'Successfully connected' and a 'Failed to
\* connect' entry: 'Failed to connect' is logged only for a device whose
\* Connect step raised.
C20_FailedToConnectMeansConnectFailed ==
    \A i \in 1..Len(log) :
        log[i].msg = "Failed to connect" =>
           /\ ConnectFailed(log[i].row)
           /\ ~Logged(log[i].row, "Successfully connected")

====
